---- MODULE Spec2Model ----
(***************************************************************************)
(* Model of clean_all.py: the janitor that lists the resources of a cloud  *)
(* project kind by kind, filters them by protection label, staleness and   *)
(* users, and deletes the survivors.                                       *)
(*                                                                         *)
(* Time is counted in whole hours.  A Python exception is a record; an     *)
(* operation that may raise returns [raised |-> <exception or NoError>,    *)
(* ...].  The cloud (what a list call answers, which delete calls fail) is *)
(* the environment: every action draws it from a bounded set.              *)
(***************************************************************************)
EXTENDS Integers, Sequences, FiniteSets, TLC

VARIABLES
    now,        \* the wall clock, as hours since the epoch in UTC
    tz,         \* the UTC offset of the process's local time zone, in hours
    pc,         \* where the run of delete_resources is
    kind,       \* index in Kinds of the run_cleaning call in progress
    loc,        \* index of the next location (zone) the kind in progress visits
    locations,  \* delete_resources' local `locations`
    zones,      \* ComputeClient._zones
    attempted,  \* the kinds run_cleaning was called for, in order
    logged,     \* what the last run_cleaning logged
    cur,        \* the last per-scope routine: its listing, delete calls, exception
    call        \* the last call of a pure function: its arguments and result

vars == <<now, tz, pc, kind, loc, locations, zones, attempted, logged, cur, call>>

(***************************************************************************)
(* Bounds of the model.                                                    *)
(***************************************************************************)
MaxItems == 3       \* resources in one listing
MaxRunItems == 1    \* resources in one listing during a whole run
MaxRegions == 2     \* regions the project has
MaxPages == 3       \* pages of one paginated listing
MaxPageItems == 2   \* items on one page

(***************************************************************************)
(* Program constants.                                                      *)
(***************************************************************************)
SKIP_LABEL == "please-do-not-kill-me"
StaleHours == 24            \* datetime.timedelta(days=1)
ServerErrorStatus == 500    \* int(err.resp["status"]) >= 500

(***************************************************************************)
(* Exceptions.                                                             *)
(***************************************************************************)
\* The text of an exception, str(err), is a sequence of phrases.
NoError == [type |-> "none", status |-> 0, message |-> <<>>]

Contains(message, phrase) == \E i \in DOMAIN message : message[i] = phrase

HttpError(status, message) ==
    [type |-> "HttpError", status |-> status, message |-> message]

\* What the cloud may answer to a list call instead of a page.
ListErrors ==
    { HttpError(503, <<"Service Unavailable">>),
      HttpError(500, <<"Internal Server Error">>),
      HttpError(400, <<"Invalid value", "Unexpected location">>),
      HttpError(404, <<"Not Found">>),
      [type |-> "OSError", status |-> 0, message |-> <<"Connection reset">>] }

Get(d, key, default) == IF key \in DOMAIN d THEN d[key] ELSE default

Last(s) == s[Len(s)]

(***************************************************************************)
(* Timestamps.  A date string is either                                    *)
(*   "zulu":   YYYY-MM-DDTHH:MM:SS.ffffffZ, wall clock `wall`, UTC;        *)
(*   "offset": ISO-8601 with an explicit UTC offset `off`.                 *)
(* Instant is the moment the string denotes.                               *)
(***************************************************************************)
Zulu(wall) == [format |-> "zulu", wall |-> wall, off |-> 0]
WithOffset(wall, off) == [format |-> "offset", wall |-> wall, off |-> off]

Instant(date) == date.wall - date.off

\* datetime.datetime.strptime(date, "%Y-%m-%dT%H:%M:%S.%fZ"): a naive datetime,
\* the trailing Z matched as a literal; ValueError for any other string.
strptime(date) ==
    IF date.format = "zulu"
    THEN [raised |-> NoError, naive |-> TRUE, wall |-> date.wall, off |-> 0]
    ELSE [raised |-> [type |-> "ValueError", status |-> 0, message |-> <<"format">>],
          naive |-> TRUE, wall |-> 0, off |-> 0]

\* datetime.datetime.fromisoformat(date): an aware datetime for a string with an offset.
fromisoformat(date) ==
    [raised |-> NoError, naive |-> FALSE, wall |-> date.wall, off |-> date.off]

\* datetime.datetime.today(): the naive local wall clock.
today(clock, offset) == [naive |-> TRUE, wall |-> clock + offset, off |-> 0]

\* datetime.datetime.now(tz=datetime.timezone.utc): the aware UTC clock.
utcnow(clock) == [naive |-> FALSE, wall |-> clock, off |-> 0]

\* a < b - timedelta(hours): naive datetimes compare wall clocks, aware ones instants.
Before(a, b, hours) ==
    IF a.naive THEN a.wall < b.wall - hours
    ELSE a.wall - a.off < (b.wall - b.off) - hours

is_stale(date, clock, offset) ==
    LET first == strptime(date)
        time == IF first.raised = NoError THEN first ELSE fromisoformat(date)
        tday == IF first.raised = NoError THEN today(clock, offset) ELSE utcnow(clock)
    IN  Before(time, tday, StaleHours)

(***************************************************************************)
(* Strings the code takes apart are sequences of characters.               *)
(***************************************************************************)
Disks == <<"d", "i", "s", "k", "s">>
Instances == <<"i", "n", "s", "t", "a", "n", "c", "e", "s">>
Cluster == <<"c", "l", "u", "s", "t", "e", "r">>
Composer == <<"c", "o", "m", "p", "o", "s", "e", "r">>
Instance == <<"i", "n", "s", "t", "a", "n", "c", "e">>

_singular_name(name) ==
    IF Len(name) > 0 /\ Last(name) = "s" THEN SubSeq(name, 1, Len(name) - 1) ELSE name

(***************************************************************************)
(* A paginated listing source: what the endpoint.list request and            *)
(* endpoint.list_next(...) answer.                                         *)
(*   pages      the responses, one per page, each a dict                   *)
(*   list_next  FALSE when the endpoint has no list_next attribute         *)
(*   fail_at    the page whose execute() raises `error` (0: none)          *)
(***************************************************************************)
Source(pages, has_list_next, fail_at, error) ==
    [pages |-> pages, list_next |-> has_list_next, fail_at |-> fail_at, error |-> error]

\* endpoint.list_next(previous_request, previous_response): the request of the
\* next page, None (0) when the response carries no nextPageToken.
list_next_drops_last_page(source, request) ==
    IF request + 1 < Len(source.pages) THEN request + 1 ELSE 0

list_next(source, request) ==
    IF request < Len(source.pages) THEN request + 1 ELSE 0

\* except AttributeError: break
except_AttributeError_raises(instance_list) ==
    [raised |-> [type |-> "AttributeError", status |-> 0, message |-> <<"list_next">>],
     list |-> <<>>]

except_AttributeError(instance_list) ==
    [raised |-> NoError, list |-> instance_list]

RECURSIVE iterate_while(_, _, _, _)
iterate_while(source, key, request, instance_list) ==
    IF request = 0
    THEN [raised |-> NoError, list |-> instance_list]
    ELSE IF source.fail_at = request
    THEN [raised |-> source.error, list |-> <<>>]
    ELSE LET response == source.pages[request]
             extended == instance_list \o Get(response, key, <<>>)
         IN  IF ~source.list_next
             THEN except_AttributeError(extended)
             ELSE iterate_while(source, key, list_next(source, request), extended)

_iterate(source, key) == iterate_while(source, key, 1, <<>>)

(***************************************************************************)
(* _delete: one delete call.  `failure` is what endpoint.delete(...)       *)
(* .execute() raises (NoError: nothing).                                   *)
(***************************************************************************)
DeleteCall(resource_name, resource_id, payload, failure) ==
    [resource |-> _singular_name(resource_name), id |-> resource_id,
     payload |-> payload, failed |-> failure # NoError]

_delete_reraises(resource_name, resource_id, payload, failure) ==
    [raised |-> failure,
     call |-> DeleteCall(resource_name, resource_id, payload, failure)]

_delete(resource_name, resource_id, payload, failure) ==
    [raised |-> NoError,
     call |-> DeleteCall(resource_name, resource_id, payload, failure)]

(***************************************************************************)
(* Resource descriptors: the dicts a listing returns.  An optional field   *)
(* is a choice [present, value]; Python's None for a missing `users` reads *)
(* as the empty list.                                                      *)
(***************************************************************************)
PROJECT == "project"

EmptyDict == [k \in {} |-> ""]

Optional(choice, key) == IF choice.present THEN (key :> choice.value) ELSE EmptyDict

Url(collection, name) == <<collection, name>>      \* ".../<collection>/<name>"
split_last(url) == Last(url)                       \* url.split("/")[-1]

Truthy(list) == Len(list) > 0                      \* bool(list)

compute_object(id, zone, body) ==
    [id |-> id, creationTimestamp |-> body.date, zone |-> Url("zones", zone)]
        @@ Optional(body.labels, "labels") @@ Optional(body.users, "users")

gke_object(id, zone, body) ==
    [name |-> id, zone |-> zone, createTime |-> body.date]
        @@ Optional(body.labels, "resourceLabels")

dataproc_object(id, body) ==
    [clusterName |-> id, status |-> [stateStartTime |-> body.date]]
        @@ Optional(body.labels, "labels")

composer_object(id, location, body) ==
    [name |-> Url(location, id), updateTime |-> body.date]
        @@ Optional(body.labels, "labels")

redis_object(id, location, body) ==
    [name |-> Url(location, id), createTime |-> body.date]
        @@ Optional(body.labels, "labels")

(***************************************************************************)
(* The filters.  Each gives, for one listed object, whether _delete is     *)
(* called and with which arguments.                                        *)
(***************************************************************************)
\* SKIP_LABEL not in obj.get(field, {})
not_labeled_reads_labels(obj, field) ==
    SKIP_LABEL \notin DOMAIN Get(obj, "labels", EmptyDict)

not_labeled(obj, field) ==
    SKIP_LABEL \notin DOMAIN Get(obj, field, EmptyDict)

compute_decide_ignores_users(endpoint_name, obj, clock, offset) ==
    [delete |-> not_labeled(obj, "labels") /\ is_stale(obj.creationTimestamp, clock, offset),
     resource_name |-> endpoint_name,
     resource_id |-> obj.id,
     payload |-> [project |-> PROJECT, zone |-> split_last(obj.zone),
                  key |-> _singular_name(endpoint_name), value |-> obj.id]]

compute_decide(endpoint_name, obj, clock, offset) ==
    LET is_not_labeled == not_labeled(obj, "labels")
        stale == is_stale(obj.creationTimestamp, clock, offset)
        has_no_users == ~Truthy(Get(obj, "users", <<>>))
    IN  [delete |-> is_not_labeled /\ stale /\ has_no_users,
         resource_name |-> endpoint_name,
         resource_id |-> obj.id,
         payload |-> [project |-> PROJECT, zone |-> split_last(obj.zone),
                      key |-> _singular_name(endpoint_name), value |-> obj.id]]

gke_decide(cluster, clock, offset) ==
    [delete |-> not_labeled(cluster, "resourceLabels")
                    /\ is_stale(cluster.createTime, clock, offset),
     resource_name |-> Cluster,
     resource_id |-> cluster.name,
     payload |-> [name |-> <<"projects", PROJECT, "locations", cluster.zone,
                             "clusters", cluster.name>>]]

dataproc_decide(location, cluster, clock, offset) ==
    LET last_state_date == cluster.status.stateStartTime
    IN  [delete |-> not_labeled(cluster, "labels") /\ is_stale(last_state_date, clock, offset),
         resource_name |-> Cluster,
         resource_id |-> cluster.clusterName,
         payload |-> [projectId |-> PROJECT, region |-> location,
                      clusterName |-> cluster.clusterName]]

composer_decide(env, clock, offset) ==
    [delete |-> not_labeled(env, "labels") /\ is_stale(env.updateTime, clock, offset),
     resource_name |-> Composer,
     resource_id |-> split_last(env.name),
     payload |-> [name |-> env.name]]

redis_decide(instance, clock, offset) ==
    LET create_date == instance.createTime
    IN  [delete |-> not_labeled(instance, "labels") /\ is_stale(create_date, clock, offset),
         resource_name |-> Instance,
         resource_id |-> instance.name,
         payload |-> [name |-> instance.name]]

(***************************************************************************)
(* The for loop over a listing: decisions[i] is the filter's verdict on    *)
(* the i-th object, `failing` the positions whose delete call raises       *)
(* `failure`.  An exception out of _delete would end the loop.             *)
(***************************************************************************)
RECURSIVE delete_loop(_, _, _, _, _)
delete_loop(decisions, i, failing, failure, calls) ==
    IF i > Len(decisions)
    THEN [raised |-> NoError, calls |-> calls]
    ELSE IF ~decisions[i].delete
    THEN delete_loop(decisions, i + 1, failing, failure, calls)
    ELSE LET d == decisions[i]
             r == _delete(d.resource_name, d.resource_id, d.payload,
                          IF i \in failing THEN failure ELSE NoError)
         IN  IF r.raised # NoError
             THEN [raised |-> r.raised, calls |-> Append(calls, r.call)]
             ELSE delete_loop(decisions, i + 1, failing, failure, Append(calls, r.call))

Routine(raised, listed, calls) == [raised |-> raised, listed |-> listed, calls |-> calls]

\* The body of ComputeClient._delete_all for one zone.
_delete_all_zone(endpoint_name, source, failing, failure, clock, offset) ==
    LET objs == _iterate(source, "items")
        decisions == [i \in 1..Len(objs.list) |->
                         compute_decide(endpoint_name, objs.list[i], clock, offset)]
        r == delete_loop(decisions, 1, failing, failure, <<>>)
    IN  IF objs.raised # NoError
        THEN Routine(objs.raised, <<>>, <<>>)
        ELSE Routine(r.raised, objs.list, r.calls)

\* GKEClient.delete_all_clusters: one list call, no pagination.
gke_delete_all_clusters(source, failing, failure, clock, offset) ==
    LET list_response == source.pages[1]
        clusters == Get(list_response, "clusters", <<>>)
        decisions == [i \in 1..Len(clusters) |-> gke_decide(clusters[i], clock, offset)]
        r == delete_loop(decisions, 1, failing, failure, <<>>)
    IN  IF source.fail_at = 1
        THEN Routine(source.error, <<>>, <<>>)
        ELSE IF "clusters" \notin DOMAIN list_response
        THEN Routine(NoError, <<>>, <<>>)
        ELSE Routine(r.raised, clusters, r.calls)

\* DataprocClient._delete_all_in_location
dataproc_delete_all_in_location(location, source, failing, failure, clock, offset) ==
    LET clusters == _iterate(source, "clusters")
        decisions == [i \in 1..Len(clusters.list) |->
                         dataproc_decide(location, clusters.list[i], clock, offset)]
        r == delete_loop(decisions, 1, failing, failure, <<>>)
    IN  IF clusters.raised # NoError
        THEN Routine(clusters.raised, <<>>, <<>>)
        ELSE Routine(r.raised, clusters.list, r.calls)

\* ComposerClient._delete_all_in_location
composer_delete_all_in_location(location, source, failing, failure, clock, offset) ==
    LET environments == _iterate(source, "environments")
        decisions == [i \in 1..Len(environments.list) |->
                         composer_decide(environments.list[i], clock, offset)]
        r == delete_loop(decisions, 1, failing, failure, <<>>)
    IN  IF environments.raised # NoError
        THEN Routine(environments.raised, <<>>, <<>>)
        ELSE Routine(r.raised, environments.list, r.calls)

\* MemorystoreRedisClient._delete_all_in_location
redis_delete_all_in_location(location, source, failing, failure, clock, offset) ==
    LET instances == _iterate(source, "instances")
        decisions == [i \in 1..Len(instances.list) |->
                         redis_decide(instances.list[i], clock, offset)]
        r == delete_loop(decisions, 1, failing, failure, <<>>)
    IN  IF instances.raised # NoError
        THEN Routine(instances.raised, <<>>, <<>>)
        ELSE Routine(r.raised, instances.list, r.calls)

(***************************************************************************)
(* The environment's choices.                                              *)
(***************************************************************************)
Clock == {1000}
LocalOffsets == {-2, 0, 2}

Present(value) == [present |-> TRUE, value |-> value]
AbsentDict == [present |-> FALSE, value |-> EmptyDict]
AbsentList == [present |-> FALSE, value |-> <<>>]

LabelChoices == {AbsentDict, Present("team" :> "cats"), Present(SKIP_LABEL :> "x")}
UsersChoices == {AbsentList, Present(<<>>), Present(<<"vm">>)}

\* One date the filter finds stale and one it finds fresh, whatever the time zone.
DateChoices(clock) == {Zulu(clock - 30), WithOffset(clock - 8, 2)}

Bodies(clock, users) == [date : DateChoices(clock), labels : LabelChoices, users : users]

\* During a whole run a listing holds fewer kinds of objects: a stale one, a
\* stale one that is protected and a fresh one.
RunBodies(clock) ==
    { [date |-> Zulu(clock - 30), labels |-> AbsentDict, users |-> AbsentList],
      [date |-> Zulu(clock - 30), labels |-> Present(SKIP_LABEL :> "x"), users |-> AbsentList],
      [date |-> WithOffset(clock - 8, 2), labels |-> AbsentDict, users |-> AbsentList] }

\* A listing of `objs` served on one page; an empty one also as a response
\* without the key.
OnePage(objs, key) ==
    {Source(<<(key :> objs)>>, TRUE, 0, NoError)}
    \cup (IF Len(objs) = 0 THEN {Source(<<EmptyDict>>, TRUE, 0, NoError)} ELSE {})

\* The same, and with the first object on a page of its own.
Served(objs, key) ==
    OnePage(objs, key)
    \cup (IF Len(objs) >= 2
          THEN {Source(<<(key :> SubSeq(objs, 1, 1)), (key :> SubSeq(objs, 2, Len(objs)))>>,
                       TRUE, 0, NoError)}
          ELSE {})

Failed == {Source(<<EmptyDict>>, TRUE, 1, e) : e \in ListErrors}

\* No delete call fails, the one of a single object is refused, or the connection
\* is down for all of them.
NoFailure == [failing |-> {}, failure |-> NoError]

DeleteFailures(n) ==
    {NoFailure}
    \cup {[failing |-> {i}, failure |-> HttpError(409, <<"Resource in use">>)] : i \in 1..n}
    \cup {[failing |-> 1..n,
           failure |-> [type |-> "OSError", status |-> 0, message |-> <<"Connection reset">>]]}

\* Only disks carry `users`.
ComputeBodies(clock, endpoint_name) ==
    IF endpoint_name = Disks
    THEN [date : DateChoices(clock), labels : {AbsentDict, Present(SKIP_LABEL :> "x")},
          users : UsersChoices]
    ELSE Bodies(clock, {AbsentList})

(***************************************************************************)
(* Regions: ComputeClient._refresh_locations_and_zones.                    *)
(***************************************************************************)
RegionName(i) == <<i>>
ZoneName(i) == <<i, "a">>

ZonesChoices(i) == {AbsentList, Present(<<>>), Present(<<Url("zones", ZoneName(i))>>)}

region_object(i, zs) == [name |-> RegionName(i)] @@ Optional(zs, "zones")

RegionListings(n) ==
    UNION {{[i \in 1..m |-> region_object(i, z[i])] :
               z \in {f \in [1..m -> UNION {ZonesChoices(j) : j \in 1..m}] :
                          \A j \in 1..m : f[j] \in ZonesChoices(j)}} : m \in 0..n}

RegionSources(n) == UNION {OnePage(r, "items") : r \in RegionListings(n)} \cup Failed

RECURSIVE zones_of(_, _)
zones_of(locations_objects, i) ==
    IF i > Len(locations_objects) THEN <<>>
    ELSE LET zs == Get(locations_objects[i], "zones", <<>>)
         IN  [j \in 1..Len(zs) |-> split_last(zs[j])] \o zones_of(locations_objects, i + 1)

_refresh_locations_and_zones(source) ==
    LET locations_objects == _iterate(source, "items")
    IN  [raised |-> locations_objects.raised,
         locations |-> [i \in 1..Len(locations_objects.list) |-> locations_objects.list[i].name],
         zones |-> zones_of(locations_objects.list, 1)]

(***************************************************************************)
(* The run: delete_resources.                                              *)
(***************************************************************************)
Kinds ==
    << [name |-> "composer instances", scope |-> "locations", endpoint_name |-> <<>>],
       [name |-> "GKE clusters", scope |-> "all", endpoint_name |-> <<>>],
       [name |-> "dataproc clusters", scope |-> "locations", endpoint_name |-> <<>>],
       [name |-> "compute instances", scope |-> "zones", endpoint_name |-> Instances],
       [name |-> "compute disks", scope |-> "zones", endpoint_name |-> Disks],
       [name |-> "memorystore redis instances", scope |-> "locations", endpoint_name |-> <<>>] >>

ComposerKind == 1
GkeKind == 2
DataprocKind == 3
InstancesKind == 4
DisksKind == 5
RedisKind == 6

\* The except clause of _delete_in_all_locations: what it raises again.
except_HttpError_above_500(err) ==
    IF err.type # "HttpError" THEN err
    ELSE IF err.status > ServerErrorStatus THEN NoError
    ELSE IF Contains(err.message, "Unexpected location") THEN NoError
    ELSE err

except_HttpError_swallows_all(err) ==
    IF err.type # "HttpError" THEN err ELSE NoError

except_HttpError(err) ==
    IF err.type # "HttpError" THEN err
    ELSE IF err.status >= ServerErrorStatus THEN NoError
    ELSE IF Contains(err.message, "Unexpected location") THEN NoError
    ELSE err

\* The zone loop of ComputeClient._delete_all has no except clause.
zone_loop_raises_tolerant(err) == except_HttpError(err)

zone_loop_raises(err) == err

\* run_cleaning: logs the outcome, raises nothing.
run_cleaning_reraises(name, raised) ==
    [raised |-> raised,
     log |-> [name |-> name, outcome |-> IF raised = NoError THEN "done" ELSE "failed"]]

run_cleaning(name, raised) ==
    [raised |-> NoError,
     log |-> [name |-> name, outcome |-> IF raised = NoError THEN "done" ELSE "failed"]]

NoRoutine == [kind |-> 0, loc |-> 0, raised |-> NoError, listed |-> <<>>, calls |-> <<>>]
NoLog == [name |-> "none", outcome |-> "none"]
NoCall == [fn |-> "none", returned |-> FALSE]

Ran(k, l, r) ==
    [kind |-> k, loc |-> l, raised |-> r.raised, listed |-> r.listed, calls |-> r.calls]

Init ==
    /\ now \in Clock
    /\ tz \in LocalOffsets
    /\ pc = "start"
    /\ kind = 0
    /\ loc = 0
    /\ locations = <<>>
    /\ zones = <<>>
    /\ attempted = <<>>
    /\ logged = NoLog
    /\ cur = NoRoutine
    /\ call = NoCall

\* run_cleaning returns (or not) for the kind in progress; the run goes on.
FinishKind(raised) ==
    LET name == Kinds[kind].name
        r == run_cleaning(name, raised)
    IN  /\ attempted' = Append(attempted, name)
        /\ logged' = r.log
        /\ loc' = 1
        /\ IF r.raised # NoError
           THEN pc' = "crashed" /\ kind' = kind
           ELSE /\ kind' = kind + 1
                /\ pc' = IF kind = Len(Kinds) THEN "done" ELSE "clean"

\* After one scope of a loop: the exception `err` ends the kind, the last scope too.
NextScope(err, scopes) ==
    IF err # NoError THEN FinishKind(err)
    ELSE IF loc = Len(scopes) THEN FinishKind(NoError)
    ELSE loc' = loc + 1 /\ UNCHANGED <<pc, kind, attempted, logged>>

\* locations = compute.locations; _ = compute.zones
GetLocationsAndZones ==
    /\ pc = "start"
    /\ \E s1 \in RegionSources(MaxRegions) :
          LET r1 == _refresh_locations_and_zones(s1)
          IN  IF r1.raised # NoError
              THEN pc' = "crashed" /\ UNCHANGED <<kind, loc, locations, zones>>
              ELSE IF r1.zones # <<>>
              THEN /\ locations' = r1.locations
                   /\ zones' = r1.zones
                   /\ pc' = "clean" /\ kind' = 1 /\ loc' = 1
              ELSE \E s2 \in RegionSources(MaxRegions) :
                      LET r2 == _refresh_locations_and_zones(s2)
                      IN  IF r2.raised # NoError
                          THEN pc' = "crashed" /\ UNCHANGED <<kind, loc, locations, zones>>
                          ELSE /\ locations' = r1.locations
                               /\ zones' = r2.zones
                               /\ pc' = "clean" /\ kind' = 1 /\ loc' = 1
    /\ UNCHANGED <<now, tz, attempted, logged, cur, call>>

\* _delete_in_all_locations over no location at all.
NoLocations ==
    /\ pc = "clean"
    /\ Kinds[kind].scope = "locations"
    /\ locations = <<>>
    /\ FinishKind(NoError)
    /\ UNCHANGED <<now, tz, locations, zones, cur, call>>

\* composer.delete_all_environments: one location of _delete_in_all_locations.
ComposerDeleteAllEnvironments ==
    /\ pc = "clean"
    /\ kind = ComposerKind
    /\ locations # <<>>
    /\ LET Step(s, d) ==
               LET r == composer_delete_all_in_location(locations[loc],
                                                        s, d.failing, d.failure, now, tz)
               IN  /\ cur' = Ran(kind, loc, r)
                   /\ NextScope(except_HttpError(r.raised), locations)
       IN  \/ \E s \in Failed : Step(s, NoFailure)
           \/ \E m \in 0..MaxRunItems : \E b \in [1..m -> RunBodies(now)] :
              \E d \in DeleteFailures(m) :
              \E s \in OnePage([i \in DOMAIN b |-> composer_object(i, locations[loc], b[i])],
                               "environments") :
                 Step(s, d)
    /\ UNCHANGED <<now, tz, locations, zones, call>>

\* gke.delete_all_clusters
GkeDeleteAllClusters ==
    /\ pc = "clean"
    /\ kind = GkeKind
    /\ LET Step(s, d) ==
               LET r == gke_delete_all_clusters(s, d.failing, d.failure, now, tz)
               IN  /\ cur' = Ran(kind, 0, r)
                   /\ FinishKind(r.raised)
       IN  \/ \E s \in Failed : Step(s, NoFailure)
           \/ \E m \in 0..MaxRunItems : \E b \in [1..m -> RunBodies(now)] :
              \E d \in DeleteFailures(m) :
              \E s \in OnePage([i \in DOMAIN b |-> gke_object(i, ZoneName(1), b[i])],
                               "clusters") :
                 Step(s, d)
    /\ UNCHANGED <<now, tz, locations, zones, call>>

\* dataproc.delete_all_clusters: one location of _delete_in_all_locations.
DataprocDeleteAllClusters ==
    /\ pc = "clean"
    /\ kind = DataprocKind
    /\ locations # <<>>
    /\ LET Step(s, d) ==
               LET r == dataproc_delete_all_in_location(locations[loc],
                                                        s, d.failing, d.failure, now, tz)
               IN  /\ cur' = Ran(kind, loc, r)
                   /\ NextScope(except_HttpError(r.raised), locations)
       IN  \/ \E s \in Failed : Step(s, NoFailure)
           \/ \E m \in 0..MaxRunItems : \E b \in [1..m -> RunBodies(now)] :
              \E d \in DeleteFailures(m) :
              \E s \in OnePage([i \in DOMAIN b |-> dataproc_object(i, b[i])],
                               "clusters") :
                 Step(s, d)
    /\ UNCHANGED <<now, tz, locations, zones, call>>

\* The zones property at the head of ComputeClient._delete_all, _zones being empty.
ComputeZones ==
    /\ pc = "clean"
    /\ Kinds[kind].scope = "zones"
    /\ zones = <<>>
    /\ \E s \in RegionSources(MaxRegions) :
          LET r == _refresh_locations_and_zones(s)
          IN  IF r.raised # NoError
              THEN FinishKind(r.raised) /\ UNCHANGED zones
              ELSE /\ zones' = r.zones
                   /\ IF r.zones = <<>>
                      THEN FinishKind(NoError)
                      ELSE UNCHANGED <<pc, kind, loc, attempted, logged>>
    /\ UNCHANGED <<now, tz, locations, cur, call>>

\* compute.delete_all_instances, compute.delete_all_disks: one zone of _delete_all.
ComputeDeleteAll ==
    /\ pc = "clean"
    /\ Kinds[kind].scope = "zones"
    /\ zones # <<>>
    /\ LET Step(s, d) ==
               LET r == _delete_all_zone(Kinds[kind].endpoint_name,
                                         s, d.failing, d.failure, now, tz)
               IN  /\ cur' = Ran(kind, loc, r)
                   /\ NextScope(zone_loop_raises(r.raised), zones)
       IN  \/ \E s \in Failed : Step(s, NoFailure)
           \/ \E m \in 0..MaxRunItems : \E b \in [1..m -> RunBodies(now)] :
              \E d \in DeleteFailures(m) :
              \E s \in OnePage([i \in DOMAIN b |-> compute_object(i, zones[loc], b[i])],
                               "items") :
                 Step(s, d)
    /\ UNCHANGED <<now, tz, locations, zones, call>>

\* memorystore_redis.delete_all_instances: one location of _delete_in_all_locations.
RedisDeleteAllInstances ==
    /\ pc = "clean"
    /\ kind = RedisKind
    /\ locations # <<>>
    /\ LET Step(s, d) ==
               LET r == redis_delete_all_in_location(locations[loc],
                                                     s, d.failing, d.failure, now, tz)
               IN  /\ cur' = Ran(kind, loc, r)
                   /\ NextScope(except_HttpError(r.raised), locations)
       IN  \/ \E s \in Failed : Step(s, NoFailure)
           \/ \E m \in 0..MaxRunItems : \E b \in [1..m -> RunBodies(now)] :
              \E d \in DeleteFailures(m) :
              \E s \in OnePage([i \in DOMAIN b |-> redis_object(i, locations[loc], b[i])],
                               "instances") :
                 Step(s, d)
    /\ UNCHANGED <<now, tz, locations, zones, call>>

Next ==
    \/ GetLocationsAndZones
    \/ NoLocations
    \/ ComposerDeleteAllEnvironments
    \/ GkeDeleteAllClusters
    \/ DataprocDeleteAllClusters
    \/ ComputeZones
    \/ ComputeDeleteAll
    \/ RedisDeleteAllInstances

Spec == Init /\ [][Next]_vars

(***************************************************************************)
(* The per-scope routines on their own: one call of one routine on any     *)
(* listing of up to MaxItems objects.                                      *)
(***************************************************************************)
InitClean ==
    /\ now \in Clock
    /\ tz \in LocalOffsets
    /\ pc = "routine"
    /\ kind = 0
    /\ loc = 0
    /\ locations = <<RegionName(1)>>
    /\ zones = <<ZoneName(1)>>
    /\ attempted = <<>>
    /\ logged = NoLog
    /\ cur = NoRoutine
    /\ call = NoCall

Returned(k, r) ==
    /\ cur' = Ran(k, 1, r)
    /\ pc' = "returned"
    /\ UNCHANGED <<now, tz, kind, loc, locations, zones, attempted, logged, call>>

CallComposer ==
    /\ pc = "routine"
    /\ \/ \E s \in Failed :
             Returned(ComposerKind,
                      composer_delete_all_in_location(locations[1], s, {}, NoError, now, tz))
       \/ \E m \in 0..MaxItems : \E b \in [1..m -> Bodies(now, {AbsentList})] :
          \E d \in DeleteFailures(m) :
          \E s \in Served([i \in DOMAIN b |-> composer_object(i, locations[1], b[i])],
                          "environments") :
             Returned(ComposerKind,
                      composer_delete_all_in_location(locations[1],
                                                      s, d.failing, d.failure, now, tz))

CallGke ==
    /\ pc = "routine"
    /\ \/ \E s \in Failed :
             Returned(GkeKind, gke_delete_all_clusters(s, {}, NoError, now, tz))
       \/ \E m \in 0..MaxItems : \E b \in [1..m -> Bodies(now, {AbsentList})] :
          \E d \in DeleteFailures(m) :
          \E s \in OnePage([i \in DOMAIN b |-> gke_object(i, zones[1], b[i])], "clusters") :
             Returned(GkeKind, gke_delete_all_clusters(s, d.failing, d.failure, now, tz))

CallDataproc ==
    /\ pc = "routine"
    /\ \/ \E s \in Failed :
             Returned(DataprocKind,
                      dataproc_delete_all_in_location(locations[1], s, {}, NoError, now, tz))
       \/ \E m \in 0..MaxItems : \E b \in [1..m -> Bodies(now, {AbsentList})] :
          \E d \in DeleteFailures(m) :
          \E s \in Served([i \in DOMAIN b |-> dataproc_object(i, b[i])], "clusters") :
             Returned(DataprocKind,
                      dataproc_delete_all_in_location(locations[1],
                                                      s, d.failing, d.failure, now, tz))

CallCompute ==
    /\ pc = "routine"
    /\ \E k \in {InstancesKind, DisksKind} :
          LET endpoint_name == Kinds[k].endpoint_name
          IN  \/ \E s \in Failed :
                    Returned(k, _delete_all_zone(endpoint_name, s, {}, NoError, now, tz))
              \/ \E m \in 0..MaxItems :
                 \E b \in [1..m -> ComputeBodies(now, endpoint_name)] :
                 \E d \in DeleteFailures(m) :
                 \E s \in Served([i \in DOMAIN b |-> compute_object(i, zones[1], b[i])],
                                 "items") :
                    Returned(k, _delete_all_zone(endpoint_name, s, d.failing, d.failure, now, tz))

CallRedis ==
    /\ pc = "routine"
    /\ \/ \E s \in Failed :
             Returned(RedisKind,
                      redis_delete_all_in_location(locations[1], s, {}, NoError, now, tz))
       \/ \E m \in 0..MaxItems : \E b \in [1..m -> Bodies(now, {AbsentList})] :
          \E d \in DeleteFailures(m) :
          \E s \in Served([i \in DOMAIN b |-> redis_object(i, locations[1], b[i])],
                          "instances") :
             Returned(RedisKind,
                      redis_delete_all_in_location(locations[1], s, d.failing, d.failure, now, tz))

NextClean == CallComposer \/ CallGke \/ CallDataproc \/ CallCompute \/ CallRedis

SpecClean == InitClean /\ [][NextClean]_vars

(***************************************************************************)
(* _iterate on its own: one call on any source of up to MaxPages pages.    *)
(* The items of a source are numbered 1, 2, ... in page order; a page of   *)
(* size -1 is a response without the key.                                  *)
(***************************************************************************)
Size(n) == IF n < 0 THEN 0 ELSE n

RECURSIVE Total(_, _)
Total(sizes, upto) == IF upto = 0 THEN 0 ELSE Total(sizes, upto - 1) + Size(sizes[upto])

Page(sizes, p, key) ==
    IF sizes[p] < 0 THEN EmptyDict
    ELSE (key :> [i \in 1..sizes[p] |-> Total(sizes, p - 1) + i])

Pages(sizes, key) == [p \in 1..Len(sizes) |-> Page(sizes, p, key)]

\* The sources _iterate is called on: m pages of the given sizes, with or without
\* list_next, failing at no request (fail_at = 0) or at request `f`.
InitIterate ==
    /\ now \in Clock
    /\ tz = 0
    /\ pc = "_iterate"
    /\ kind = 0
    /\ loc = 0
    /\ locations = <<>>
    /\ zones = <<>>
    /\ attempted = <<>>
    /\ logged = NoLog
    /\ cur = NoRoutine
    /\ \E m \in 1..MaxPages : \E sizes \in [1..m -> -1..MaxPageItems] :
       \E ln \in BOOLEAN : \E f \in 0..m :
       \E e \in (IF f = 0 THEN {NoError} ELSE ListErrors) :
          call = [fn |-> "_iterate", returned |-> FALSE,
                  source |-> Source(Pages(sizes, "items"), ln, f, e), key |-> "items",
                  result |-> [raised |-> NoError, list |-> <<>>]]

CallIterate ==
    /\ pc = "_iterate"
    /\ call' = [call EXCEPT !.returned = TRUE, !.result = _iterate(call.source, call.key)]
    /\ pc' = "returned"
    /\ UNCHANGED <<now, tz, kind, loc, locations, zones, attempted, logged, cur>>

NextIterate == CallIterate

SpecIterate == InitIterate /\ [][NextIterate]_vars

(***************************************************************************)
(* is_stale on its own: one call on any date within Horizon hours of the   *)
(* present and of the staleness limit.                                     *)
(***************************************************************************)
Horizon == 3

Ages == (0 - Horizon)..(StaleHours + Horizon)

Dates(clock) ==
    {Zulu(clock - age) : age \in Ages}
    \cup {WithOffset(clock - age + off, off) : age \in Ages, off \in LocalOffsets}

InitStale ==
    /\ now \in Clock
    /\ tz \in LocalOffsets
    /\ pc = "is_stale"
    /\ kind = 0
    /\ loc = 0
    /\ locations = <<>>
    /\ zones = <<>>
    /\ attempted = <<>>
    /\ logged = NoLog
    /\ cur = NoRoutine
    /\ \E date \in Dates(now) :
          call = [fn |-> "is_stale", returned |-> FALSE, date |-> date, result |-> FALSE]

CallIsStale ==
    /\ pc = "is_stale"
    /\ call' = [call EXCEPT !.returned = TRUE, !.result = is_stale(call.date, now, tz)]
    /\ pc' = "returned"
    /\ UNCHANGED <<now, tz, kind, loc, locations, zones, attempted, logged, cur>>

NextStale == CallIsStale

SpecStale == InitStale /\ [][NextStale]_vars

(***************************************************************************)
(* The vocabulary of the properties: what a listed object is, read off    *)
(* the object itself.                                                      *)
(***************************************************************************)
AllKinds == 1..Len(Kinds)
LocationKinds == {ComposerKind, DataprocKind, RedisKind}
ComputeKinds == {InstancesKind, DisksKind}

LabelField(k) == IF k = GkeKind THEN "resourceLabels" ELSE "labels"

DateOf(k, obj) ==
    CASE k = ComposerKind -> obj.updateTime
      [] k = GkeKind -> obj.createTime
      [] k = DataprocKind -> obj.status.stateStartTime
      [] k \in ComputeKinds -> obj.creationTimestamp
      [] k = RedisKind -> obj.createTime

\* The resource_id handed to _delete for the object.
IdOf(k, obj) ==
    CASE k = ComposerKind -> Last(obj.name)
      [] k = GkeKind -> obj.name
      [] k = DataprocKind -> obj.clusterName
      [] k \in ComputeKinds -> obj.id
      [] k = RedisKind -> obj.name

Protected(k, obj) ==
    /\ LabelField(k) \in DOMAIN obj
    /\ \E label \in DOMAIN obj[LabelField(k)] : label = SKIP_LABEL

InUse(k, obj) == k \in ComputeKinds /\ "users" \in DOMAIN obj /\ obj.users # <<>>

Stale(k, obj) == is_stale(DateOf(k, obj), now, tz)

Eligible(k, obj) == ~Protected(k, obj) /\ Stale(k, obj) /\ ~InUse(k, obj)

\* The routine `r` called _delete for the object.
Passed(r, obj) == \E j \in DOMAIN r.calls : r.calls[j].id = IdOf(r.kind, obj)

Tolerated(err) ==
    /\ err.type = "HttpError"
    /\ err.status >= 500 \/ Contains(err.message, "Unexpected location")

Propagating(err) ==
    /\ err.type = "HttpError"
    /\ err.status < 500
    /\ ~Contains(err.message, "Unexpected location")

\* run_cleaning caught a failure of the kind in progress: it is logged, the kind
\* is over and the run is at the next kind (or done after the last).
KindAbandoned ==
    /\ attempted' = Append(attempted, Kinds[kind].name)
    /\ logged' = [name |-> Kinds[kind].name, outcome |-> "failed"]
    /\ kind' = kind + 1
    /\ loc' = 1
    /\ pc' = IF kind < Len(Kinds) THEN "clean" ELSE "done"

(***************************************************************************)
(* C1.  A listed resource whose label map holds the key                    *)
(* "please-do-not-kill-me" is never passed to _delete, for every kind,     *)
(* whatever its age and whichever delete calls of the listing fail.        *)
(***************************************************************************)
C1_ProtectedNeverDeleted ==
    \A i \in DOMAIN cur.listed :
        Protected(cur.kind, cur.listed[i]) => ~Passed(cur, cur.listed[i])

C1_Witness ==
    /\ cur.kind = GkeKind
    /\ cur.raised = NoError
    /\ \E i, j \in DOMAIN cur.listed :
          /\ Protected(cur.kind, cur.listed[i]) /\ Stale(cur.kind, cur.listed[i])
          /\ ~Passed(cur, cur.listed[i])
          /\ ~Protected(cur.kind, cur.listed[j]) /\ Passed(cur, cur.listed[j])

(***************************************************************************)
(* C2.  A listed resource without the protection label is passed to        *)
(* _delete if and only if is_stale of its timestamp is true and, for a     *)
(* compute object, its `users` field is empty or absent.                   *)
(***************************************************************************)
C2_DeletedIffStaleAndUnused ==
    \A i \in DOMAIN cur.listed :
        LET obj == cur.listed[i]
        IN  ~Protected(cur.kind, obj)
                => (Passed(cur, obj) <=> (Stale(cur.kind, obj) /\ ~InUse(cur.kind, obj)))

C2_Witness ==
    /\ cur.kind = DisksKind
    /\ \E i, j, k \in DOMAIN cur.listed :
          /\ ~Protected(cur.kind, cur.listed[i]) /\ ~Protected(cur.kind, cur.listed[j])
          /\ ~Protected(cur.kind, cur.listed[k])
          /\ Stale(cur.kind, cur.listed[i]) /\ InUse(cur.kind, cur.listed[i])
          /\ ~Passed(cur, cur.listed[i])
          /\ Stale(cur.kind, cur.listed[j]) /\ "users" \in DOMAIN cur.listed[j]
          /\ Passed(cur, cur.listed[j])
          /\ ~Stale(cur.kind, cur.listed[k]) /\ ~Passed(cur, cur.listed[k])

(***************************************************************************)
(* C3.  A failing delete call never leaves _delete: the delete calls of a  *)
(* routine are exactly the stale unprotected unused objects of its         *)
(* listing, in listing order, each once, whichever of the calls fail, and  *)
(* the routine raises nothing once it has listed.                          *)
(***************************************************************************)
C3_EveryEligibleAttemptedOnce ==
    LET eligible == SelectSeq(cur.listed, LAMBDA obj : Eligible(cur.kind, obj))
    IN  /\ Len(cur.calls) = Len(eligible)
        /\ \A j \in DOMAIN eligible : cur.calls[j].id = IdOf(cur.kind, eligible[j])
        /\ cur.listed # <<>> => cur.raised = NoError

C3_Witness ==
    /\ Len(cur.calls) = 3
    /\ ~cur.calls[1].failed
    /\ cur.calls[2].failed
    /\ ~cur.calls[3].failed

(***************************************************************************)
(* C4.  In _delete_in_all_locations the routine is called for the location *)
(* whose turn it is and passes the eligible objects it lists to _delete;   *)
(* when it raises an HttpError with status >= 500 or with "Unexpected      *)
(* location" in its text, the loop goes on with the next location, and     *)
(* after the last location the kind completes without raising.             *)
(***************************************************************************)
C4_ToleratedErrorContinues ==
    [][(cur' # cur /\ cur'.kind \in LocationKinds) =>
          /\ cur'.kind = kind /\ cur'.loc = loc
          /\ \A i \in DOMAIN cur'.listed :
                Eligible(kind, cur'.listed[i]) => Passed(cur', cur'.listed[i])
          /\ Tolerated(cur'.raised) =>
                IF loc < Len(locations)
                THEN kind' = kind /\ loc' = loc + 1 /\ pc' = "clean"
                ELSE /\ logged' = [name |-> Kinds[kind].name, outcome |-> "done"]
                     /\ kind' = kind + 1
                     /\ pc' \in {"clean", "done"}]_vars

C4_Witness ==
    /\ pc = "clean"
    /\ cur.kind = DataprocKind
    /\ Tolerated(cur.raised)
    /\ kind = cur.kind
    /\ loc = cur.loc + 1

(***************************************************************************)
(* C5.  An HttpError with status below 500 and without "Unexpected         *)
(* location" leaves _delete_in_all_locations: no later location of the     *)
(* kind is visited, run_cleaning logs the failure and the run goes on with *)
(* the next kind.                                                          *)
(***************************************************************************)
C5_OtherHttpErrorAbandonsKind ==
    [][(cur' # cur /\ cur'.kind \in LocationKinds /\ Propagating(cur'.raised))
          => KindAbandoned]_vars

C5_Witness ==
    /\ pc = "clean"
    /\ cur.kind = ComposerKind
    /\ Propagating(cur.raised)
    /\ cur.loc < Len(locations)
    /\ kind = GkeKind
    /\ logged = [name |-> Kinds[ComposerKind].name, outcome |-> "failed"]

(***************************************************************************)
(* C6.  As claimed: every run attempts the six kinds once each, in order,  *)
(* and finishes normally.                                                  *)
(***************************************************************************)
C6_EveryRunAttemptsAllKinds ==
    pc \notin {"start", "clean"}
        => pc = "done" /\ attempted = [k \in AllKinds |-> Kinds[k].name]

(***************************************************************************)
(* C6, amended.  A run whose discovery of locations and zones returns      *)
(* attempts the six kinds once each, in order, whatever fails while        *)
(* cleaning, and finishes normally; a run ends abnormally only in the      *)
(* discovery, before any kind is attempted.                                *)
(***************************************************************************)
C6_RunPastDiscoveryAttemptsAllKinds ==
    /\ pc = "crashed" => attempted = <<>> /\ kind = 0
    /\ pc \in {"clean", "done"} => attempted = [k \in 1..(kind - 1) |-> Kinds[k].name]
    /\ pc = "clean" => kind \in AllKinds /\ ENABLED Next
    /\ pc = "done" => kind = Len(Kinds) + 1

C6_Witness ==
    /\ pc = "done"
    /\ attempted = [k \in AllKinds |-> Kinds[k].name]
    /\ cur.kind = RedisKind
    /\ cur.raised # NoError
    /\ logged = [name |-> Kinds[RedisKind].name, outcome |-> "failed"]

(***************************************************************************)
(* C7.  For a source with continuation that serves n pages without         *)
(* failing, _iterate returns the items of pages 1..n in page order, each   *)
(* once: the items being numbered in page order, the list 1, 2, ..., N.    *)
(***************************************************************************)
RECURSIVE ItemCount(_, _, _)
ItemCount(pages, key, upto) ==
    IF upto = 0 THEN 0
    ELSE ItemCount(pages, key, upto - 1)
            + (IF key \in DOMAIN pages[upto] THEN Len(pages[upto][key]) ELSE 0)

C7_IterateConcatenatesPages ==
    (call.fn = "_iterate" /\ call.returned /\ call.source.list_next
        /\ call.source.fail_at = 0)
        => /\ call.result.raised = NoError
           /\ call.result.list
                = [i \in 1..ItemCount(call.source.pages, call.key, Len(call.source.pages)) |-> i]

C7_Witness ==
    /\ call.fn = "_iterate" /\ call.returned
    /\ call.source.list_next /\ call.source.fail_at = 0
    /\ Len(call.source.pages) = 3
    /\ \A p \in 1..3 : call.key \in DOMAIN call.source.pages[p]
                           /\ Len(call.source.pages[p][call.key]) = 2
    /\ call.result.list = <<1, 2, 3, 4, 5, 6>>

(***************************************************************************)
(* C8.  For a source without continuation (no list_next) _iterate returns  *)
(* the items of the first page and raises nothing.                         *)
(***************************************************************************)
C8_NoContinuationReturnsFirstPage ==
    (call.fn = "_iterate" /\ call.returned /\ ~call.source.list_next
        /\ call.source.fail_at # 1)
        => /\ call.result.raised = NoError
           /\ call.result.list
                = (IF call.key \in DOMAIN call.source.pages[1]
                   THEN call.source.pages[1][call.key] ELSE <<>>)

C8_Witness ==
    /\ call.fn = "_iterate" /\ call.returned
    /\ ~call.source.list_next
    /\ Len(call.source.pages) >= 2
    /\ call.result.raised = NoError
    /\ call.result.list = <<1, 2>>

(***************************************************************************)
(* C9.  As claimed: is_stale returns true if and only if the moment the    *)
(* timestamp denotes is more than 24 hours before now, in both formats.    *)
(***************************************************************************)
C9_StaleIffOlderThanADay ==
    (call.fn = "is_stale" /\ call.returned)
        => (call.result <=> Instant(call.date) < now - 24)

(***************************************************************************)
(* C10.  The zone loop of ComputeClient._delete_all tolerates no failure:  *)
(* whatever a zone's routine raises, a server error included, no later     *)
(* zone is visited for that object type, run_cleaning logs the failure and *)
(* the run goes on with the next kind.                                     *)
(***************************************************************************)
C10_ZoneFailureAbandonsObjectType ==
    [][(cur' # cur /\ cur'.kind \in ComputeKinds /\ cur'.raised # NoError)
          => KindAbandoned]_vars

C10_Witness ==
    /\ pc = "clean"
    /\ cur.kind = InstancesKind
    /\ cur.raised = HttpError(503, <<"Service Unavailable">>)
    /\ cur.loc < Len(zones)
    /\ kind = DisksKind
    /\ logged = [name |-> Kinds[InstancesKind].name, outcome |-> "failed"]

====
